---- MODULE Spec2Model ----
(***************************************************************************)
(* Model of script/2025-05-22-mep.py: the command-line filter that keeps   *)
(* the rows of a MEP matrix whose H3 cell lies inside a WKT boundary.      *)
(*                                                                         *)
(* The state is the file system the command works on, the running process  *)
(* (its position in run(), its argv, the argparse Namespace, its stdout)   *)
(* and the record of the invocations that have ended.  Python values are   *)
(* tagged with their type where the code's behaviour depends on it.        *)
(***************************************************************************)
EXTENDS Integers, Sequences, FiniteSets

VARIABLES fs, pc, argv, args, stdout, history

vars == <<fs, pc, argv, args, stdout, history>>

(***************************************************************************)
(* Bounds of the model.                                                    *)
(***************************************************************************)
MaxRows == 2
MaxRuns == 2

(***************************************************************************)
(* Python values.                                                          *)
(***************************************************************************)
Str(s) == [t |-> "str", v |-> s]
IntV(n) == [t |-> "int", v |-> n]
Min(a, b) == IF a < b THEN a ELSE b

(***************************************************************************)
(* The parser, lines 9-13.  Every argument is positional, none has nargs    *)
(* or type; the destination of a positional is its name as written.         *)
(***************************************************************************)
DefaultChunksize == 500000

parser ==
  << [dest |-> "wkt-boundary-file", nargs |-> "None", default |-> [t |-> "NoneType"]],
     [dest |-> "mep-matrix-file",   nargs |-> "None", default |-> [t |-> "NoneType"]],
     [dest |-> "output_file",       nargs |-> "None", default |-> [t |-> "NoneType"]],
     [dest |-> "chunksize",         nargs |-> "None", default |-> IntV(DefaultChunksize)] >>

\* argparse: a positional without nargs consumes exactly one token and is
\* required, whatever its default; only nargs "?" falls back to the default.
\* Without type= the token is stored as the string it is.
ArgparseAccepts(p, av) ==
  /\ Len(av) <= Len(p)
  /\ \A i \in DOMAIN p : i > Len(av) => p[i].nargs = "?"

Namespace(p, av) ==
  [d \in {p[i].dest : i \in DOMAIN p} |->
     LET i == CHOOSE j \in DOMAIN p : p[j].dest = d
     IN  IF i <= Len(av) THEN Str(av[i]) ELSE p[i].default]

\* Attribute access args.<name>: the Namespace holds the destinations verbatim,
\* so it has "wkt-boundary-file" and "mep-matrix-file" (reachable by getattr
\* alone) and no attribute wkt_boundary_file or mep_matrix_file.
HasAttr(ns, name) == name \in DOMAIN ns

(***************************************************************************)
(* Files.                                                                  *)
(***************************************************************************)
BoundaryPath == "b.wkt"
MatrixPath == "m.csv"
OutputPath == "o.csv"
Paths == {BoundaryPath, MatrixPath, OutputPath}

Absent == [kind |-> "absent"]
Garbage == [kind |-> "garbage"]
WktText(g) == [kind |-> "wkt", geom |-> g]
Csv(h, rs) == [kind |-> "csv", header |-> h, rows |-> rs]

\* POLYGON ((0 20, 10 20, 10 30, 0 30, 0 20)): x is longitude, y latitude.
Square == [x0 |-> 0, x1 |-> 10, y0 |-> 20, y1 |-> 30]

(***************************************************************************)
(* h3.cell_to_boundary, line 29: the vertices of a cell as (lat, lng)       *)
(* pairs; an identifier that is no cell raises.                            *)
(***************************************************************************)
CellCenter ==
  [h \in {"H1", "H2", "H3"} |->
     CASE h = "H1" -> [lat |-> 25, lng |-> 5]     \* inside the square
       [] h = "H2" -> [lat |-> 25, lng |-> 9]     \* straddles its east edge
       [] h = "H3" -> [lat |-> 5,  lng |-> 25]]   \* outside (inside if x, y swapped)

IsValidCell(h) == h \in DOMAIN CellCenter

cell_to_boundary(h) ==
  LET c == CellCenter[h]
  IN  << <<c.lat, c.lng + 2>>, <<c.lat + 1, c.lng + 1>>, <<c.lat + 1, c.lng - 1>>,
         <<c.lat, c.lng - 2>>, <<c.lat - 1, c.lng - 1>>, <<c.lat - 1, c.lng + 1>> >>

\* lines 28-31: Polygon([(t[1], t[0]) for t in coords])
hex_to_poly(h) ==
  IF IsValidCell(h)
  THEN [exc |-> "none",
        v |-> [t |-> "Polygon",
               coords |-> [i \in 1..6 |-> <<cell_to_boundary(h)[i][2], cell_to_boundary(h)[i][1]>>]]]
  ELSE [exc |-> "H3CellInvalidError"]

\* shapely contains for a convex boundary: every vertex within the closed region.
contains(b, poly) ==
  \A i \in DOMAIN poly.coords :
     /\ b.x0 <= poly.coords[i][1] /\ poly.coords[i][1] <= b.x1
     /\ b.y0 <= poly.coords[i][2] /\ poly.coords[i][2] <= b.y1

\* lines 33-34: bounds.contains(row["geometry"]); only a row can be subscripted.
in_bounds(bounds, row) ==
  IF row.t = "Series"
  THEN [exc |-> "none", v |-> contains(bounds, row.data.geometry)]
  ELSE [exc |-> "TypeError"]

(***************************************************************************)
(* Data frames: the column names and the rows, each row with its index      *)
(* label.  The matrix file has a header row and the rows below it.          *)
(***************************************************************************)
Header == <<"grid_id", "pop">>

Frame(cols, rs) == [columns |-> cols, rows |-> rs]
ColSet(cols) == {cols[i] : i \in DOMAIN cols}

NumChunks(n, c) == IF n = 0 THEN 1 ELSE (n + c - 1) \div c

\* pd.read_csv(path, chunksize=c), line 37: frames of at most c rows, in file
\* order, the index running on from chunk to chunk; a file with a header and
\* no rows gives one empty frame with the header's columns.
read_csv(file, c) ==
  [k \in 1..NumChunks(Len(file.rows), c) |->
     Frame(file.header,
           [i \in 1..(Min(k * c, Len(file.rows)) - (k - 1) * c) |->
              [idx |-> (k - 1) * c + i - 1, data |-> file.rows[(k - 1) * c + i]]])]

RowsUpTo(file, c, k) == Min(k * c, Len(file.rows))

\* Series.apply: the function on each element in order; the first exception
\* propagates.
FirstExc(rs) ==
  IF \A i \in DOMAIN rs : rs[i].exc = "none" THEN "none"
  ELSE rs[CHOOSE i \in DOMAIN rs :
            rs[i].exc # "none" /\ \A j \in 1..(i - 1) : rs[j].exc = "none"].exc

\* line 38: df["geometry"] = df.grid_id.apply(hex_to_poly)
AddGeometry(df) ==
  LET polys == [i \in DOMAIN df.rows |-> hex_to_poly(df.rows[i].data.grid_id)]
  IN  IF FirstExc(polys) # "none" THEN [exc |-> FirstExc(polys)]
      ELSE [exc |-> "none",
            v |-> Frame(Append(df.columns, "geometry"),
                        [i \in DOMAIN df.rows |->
                           [idx |-> df.rows[i].idx,
                            data |-> [col \in ColSet(df.columns) \cup {"geometry"} |->
                                        IF col = "geometry" THEN polys[i].v
                                        ELSE df.rows[i].data[col]]]])]

\* df[mask]: a boolean mask selects rows; an empty object-dtype mask is no
\* boolean indexer and selects the (empty) list of columns.
GetItem(df, mask) ==
  IF Len(mask) = 0 THEN Frame(<<>>, <<>>)
  ELSE Frame(df.columns, SelectSeq([i \in DOMAIN df.rows |-> [r |-> df.rows[i], keep |-> mask[i]]],
                                   LAMBDA e : e.keep))

\* line 39: df[df.geometry.apply(in_bounds)].copy(); apply hands in_bounds the
\* elements of the geometry column, which are polygons.
FilterFrame(bounds, df) ==
  LET res == [i \in DOMAIN df.rows |-> in_bounds(bounds, df.rows[i].data.geometry)]
  IN  IF FirstExc(res) # "none" THEN [exc |-> FirstExc(res)]
      ELSE LET sel == GetItem(df, [i \in DOMAIN res |-> res[i].v])
           IN  [exc |-> "none",
                v |-> Frame(sel.columns, [i \in DOMAIN sel.rows |-> sel.rows[i].r])]

RECURSIVE concatColumns(_)
concatColumns(fr) ==
  IF fr = <<>> THEN <<>>
  ELSE LET rest == concatColumns(Tail(fr))
       IN  Head(fr).columns \o SelectSeq(rest, LAMBDA c : c \notin ColSet(Head(fr).columns))

RECURSIVE concatRows(_)
concatRows(fr) == IF fr = <<>> THEN <<>> ELSE Head(fr).rows \o concatRows(Tail(fr))

\* pd.concat, line 40: no frames is an error.
concat(fr) ==
  IF fr = <<>> THEN [exc |-> "ValueError"]
  ELSE [exc |-> "none", v |-> Frame(concatColumns(fr), concatRows(fr))]

\* result.to_csv(path, index=False), line 42: header and rows, the index
\* written as a first column only when asked for.
to_csv(df, index) ==
  IF index
  THEN Csv(<<"">> \o df.columns,
           [i \in DOMAIN df.rows |->
              [col \in ColSet(df.columns) \cup {""} |->
                 IF col = "" THEN df.rows[i].idx ELSE df.rows[i].data[col]]])
  ELSE Csv(df.columns, [i \in DOMAIN df.rows |-> df.rows[i].data])

(***************************************************************************)
(* run(), lines 25-42, as the outcome of the statements after the           *)
(* arguments were printed: the exception that ended it (or "none") and the  *)
(* line that raised it, the chunks and rows read from the matrix file, the  *)
(* accumulated frames, the writes to the output path, the files after it.   *)
(***************************************************************************)
Progress(files) ==
  [exc |-> "none", at |-> 0, chunksRead |-> 0, rowsRead |-> 0, acc |-> <<>>,
   writes |-> 0, finished |-> FALSE, fs |-> files]

Raise(o, e, line) == [o EXCEPT !.exc = e, !.at = line]

\* lines 25-26: with open(args.wkt_boundary_file) as f: bounds = wkt.loads(f.read())
LoadBounds(ns, files) ==
  IF ~HasAttr(ns, "wkt_boundary_file") THEN [exc |-> "AttributeError", at |-> 25]
  ELSE LET p == ns["wkt_boundary_file"].v
       IN  IF p \notin DOMAIN files \/ files[p].kind = "absent"
           THEN [exc |-> "FileNotFoundError", at |-> 25]
           ELSE IF files[p].kind # "wkt" THEN [exc |-> "WKTReadingError", at |-> 26]
           ELSE [exc |-> "none", v |-> files[p].geom]

\* line 37: pd.read_csv(args.mep_matrix_file, chunksize=args.chunksize); pandas
\* takes an integer >= 1 for chunksize and nothing else.
OpenMatrix(ns, files) ==
  IF ~HasAttr(ns, "mep_matrix_file") \/ ~HasAttr(ns, "chunksize")
  THEN [exc |-> "AttributeError"]
  ELSE LET p == ns["mep_matrix_file"].v
           c == ns["chunksize"]
       IN  IF ~(c.t = "int" /\ c.v >= 1) THEN [exc |-> "ValueError"]
           ELSE IF p \notin DOMAIN files \/ files[p].kind = "absent"
           THEN [exc |-> "FileNotFoundError"]
           ELSE IF files[p].kind # "csv" THEN [exc |-> "ParserError"]
           ELSE [exc |-> "none", file |-> files[p], c |-> c.v]

\* lines 37-39: the loop from chunk k on.
RECURSIVE Loop(_, _, _, _, _)
Loop(file, c, bounds, k, o) ==
  IF k > Len(read_csv(file, c)) THEN o
  ELSE LET read == [o EXCEPT !.chunksRead = k, !.rowsRead = RowsUpTo(file, c, k)]
           g == AddGeometry(read_csv(file, c)[k])
       IN  IF g.exc # "none" THEN Raise(read, g.exc, 29)
           ELSE LET f == FilterFrame(bounds, g.v)
                IN  IF f.exc # "none" THEN Raise(read, f.exc, 34)
                    ELSE Loop(file, c, bounds, k + 1, [read EXCEPT !.acc = Append(@, f.v)])

\* lines 40-42: concatenate, report, write.
WriteResult(ns, o) ==
  LET r == concat(o.acc)
  IN  IF r.exc # "none" THEN Raise(o, r.exc, 40)
      ELSE IF ~HasAttr(ns, "output_file") THEN Raise([o EXCEPT !.finished = TRUE], "AttributeError", 42)
      ELSE [o EXCEPT !.finished = TRUE,
                     !.writes = @ + 1,
                     !.fs = [q \in DOMAIN o.fs \cup {ns["output_file"].v} |->
                               IF q = ns["output_file"].v THEN to_csv(r.v, FALSE) ELSE o.fs[q]]]

\* run() as it would be had it opened the output file for writing before it
\* loaded the boundary.
run_body_opens_output_first(ns, files) ==
  LET early == [q \in DOMAIN files |->
                  IF HasAttr(ns, "output_file") /\ q = ns["output_file"].v
                  THEN Csv(<<>>, <<>>) ELSE files[q]]
      start == [Progress(early) EXCEPT !.writes = 1]
      b == LoadBounds(ns, early)
  IN  IF b.exc # "none" THEN Raise(start, b.exc, b.at)
      ELSE LET m == OpenMatrix(ns, early)
           IN  IF m.exc # "none" THEN Raise(start, m.exc, 37)
               ELSE LET l == Loop(m.file, m.c, b.v, 1, start)
                    IN  IF l.exc # "none" THEN l ELSE WriteResult(ns, l)

run_body(ns, files) ==
  LET b == LoadBounds(ns, files)
  IN  IF b.exc # "none" THEN Raise(Progress(files), b.exc, b.at)
      ELSE LET m == OpenMatrix(ns, files)
           IN  IF m.exc # "none" THEN Raise(Progress(files), m.exc, 37)
               ELSE LET l == Loop(m.file, m.c, b.v, 1, Progress(files))
                    IN  IF l.exc # "none" THEN l ELSE WriteResult(ns, l)

\* The exit status had the call of run() been wrapped in try/except Exception.
ExitStatus_swallowed(exc) == IF exc = "SystemExit" THEN 2 ELSE 0

\* lines 45-46: run() is called bare; argparse leaves through SystemExit(2),
\* any other exception is uncaught.
ExitStatus(exc) == IF exc = "none" THEN 0 ELSE IF exc = "SystemExit" THEN 2 ELSE 1

(***************************************************************************)
(* The inputs.                                                             *)
(***************************************************************************)
RowPool ==
  { [grid_id |-> "H1", pop |-> 10], [grid_id |-> "H2", pop |-> 20],
    [grid_id |-> "H3", pop |-> 30], [grid_id |-> "zz", pop |-> 40] }

Matrices == UNION { [1..n -> RowPool] : n \in 0..MaxRows }

ChunkTokens == {"1", "2"}

Argvs ==
  {<<BoundaryPath, MatrixPath, OutputPath>>}
  \cup {<<BoundaryPath, MatrixPath, OutputPath, c>> : c \in ChunkTokens}
  \cup {<<BoundaryPath, MatrixPath, OutputPath, "1", "extra">>}

OldOutput == Csv(<<"grid_id">>, << [grid_id |-> "H0"] >>)

FileSystems ==
  { [p \in Paths |-> CASE p = BoundaryPath -> b [] p = MatrixPath -> Csv(Header, m) [] OTHER -> o] :
      b \in {WktText(Square), Garbage, Absent}, m \in Matrices, o \in {Absent, OldOutput} }

Init ==
  /\ fs \in FileSystems
  /\ pc = "idle"
  /\ argv = <<>>
  /\ args = <<>>
  /\ stdout = <<>>
  /\ history = <<>>

Ended(av, ns, o, before) ==
  [argv |-> av, args |-> ns, exit |-> ExitStatus(o.exc), o |-> o, before |-> before]

\* The command is started with some arguments.
Invoke(av) ==
  /\ pc = "idle"
  /\ Len(history) < MaxRuns
  /\ argv' = av
  /\ args' = <<>>
  /\ stdout' = <<>>
  /\ pc' = "parse_args"
  /\ UNCHANGED <<fs, history>>

\* line 22: args = parser.parse_args()
ParseArgs ==
  /\ pc = "parse_args"
  /\ IF ArgparseAccepts(parser, argv)
     THEN /\ args' = Namespace(parser, argv)
          /\ pc' = "print"
          /\ UNCHANGED history
     ELSE /\ history' = Append(history, Ended(argv, args, Raise(Progress(fs), "SystemExit", 22), fs))
          /\ pc' = "idle"
          /\ UNCHANGED args
  /\ UNCHANGED <<fs, argv, stdout>>

\* lines 23-24
PrintArgs ==
  /\ pc = "print"
  /\ stdout' = stdout \o <<"running mep analysis script with arguments:", "json.dumps(vars(args))">>
  /\ pc' = "body"
  /\ UNCHANGED <<fs, argv, args, history>>

\* lines 25-42, then the process ends.
RunBody ==
  /\ pc = "body"
  /\ LET o == run_body(args, fs)
     IN  /\ fs' = o.fs
         /\ stdout' = IF o.finished THEN Append(stdout, "finished.") ELSE stdout
         /\ history' = Append(history, Ended(argv, args, o, fs))
  /\ pc' = "idle"
  /\ UNCHANGED <<argv, args>>

Next ==
  \/ \E av \in Argvs : Invoke(av)
  \/ ParseArgs
  \/ PrintArgs
  \/ RunBody

Spec == Init /\ [][Next]_vars

(***************************************************************************)
(* What the specification of the filter expects of an invocation that has   *)
(* ended (an entry h of history).                                          *)
(***************************************************************************)
\* int(token), the integer a chunk-size argument denotes.
PyInt(s) == CASE s = "1" -> 1 [] s = "2" -> 2 [] OTHER -> 0

MatrixOf(h) == h.before[h.argv[2]]
BoundaryOf(h) == h.before[h.argv[1]]
OutputOf(h) == h.o.fs[h.argv[3]]

AllDecode(rows) == \A i \in DOMAIN rows : IsValidCell(rows[i].grid_id)

\* A boundary that parses, a matrix in which every identifier decodes, a
\* positive chunk size.
ValidInputs(h) ==
  /\ Len(h.argv) = 4
  /\ BoundaryOf(h).kind = "wkt"
  /\ MatrixOf(h).kind = "csv"
  /\ AllDecode(MatrixOf(h).rows)
  /\ PyInt(h.argv[4]) >= 1

\* { r in input : boundary.contains(hex_to_polygon(r.grid_id)) }, in input order.
Retained(bounds, rows) ==
  SelectSeq(rows, LAMBDA r : contains(bounds, hex_to_poly(r.grid_id).v))

WithGeometry(r) ==
  [col \in ColSet(Header) \cup {"geometry"} |->
     IF col = "geometry" THEN hex_to_poly(r.grid_id).v ELSE r[col]]

SeqToBag(q) == [x \in {q[i] : i \in DOMAIN q} |-> Cardinality({i \in DOMAIN q : q[i] = x})]

\* The run wrote an output file of its own.
Delivered(h) == h.o.writes = 1 /\ OutputOf(h).kind = "csv"

Payload(r) == [col \in DOMAIN r \ {"geometry"} |-> r[col]]

\* C1: a run on valid inputs outputs exactly the input rows whose cell polygon
\* the boundary contains, each as often as it occurs in the input, whatever
\* the chunk size.
C1_OutputIsExactlyContainedRows ==
  \A i \in DOMAIN history :
     LET h == history[i]
     IN  ValidInputs(h) =>
           /\ Delivered(h)
           /\ SeqToBag([k \in DOMAIN OutputOf(h).rows |-> Payload(OutputOf(h).rows[k])])
                = SeqToBag(Retained(BoundaryOf(h).geom, MatrixOf(h).rows))

\* C2: two runs on the same matrix and boundary with different positive chunk
\* sizes produce output rows, and the same ones as a multiset.
C2_ChunkSizeDoesNotChangeOutput ==
  \A i, j \in DOMAIN history :
     LET h == history[i]
         g == history[j]
     IN  (/\ ValidInputs(h) /\ ValidInputs(g)
          /\ MatrixOf(h) = MatrixOf(g) /\ BoundaryOf(h) = BoundaryOf(g)
          /\ PyInt(h.argv[4]) # PyInt(g.argv[4]))
         => /\ Delivered(h) /\ Delivered(g)
            /\ SeqToBag(OutputOf(h).rows) = SeqToBag(OutputOf(g).rows)

\* C3: the chunk size is the fourth positional argument, an integer, default
\* 500000: with three arguments the run proceeds with chunksize 500000, with
\* four it uses the integer given.
C3_ChunksizeIntegerWithDefault ==
  \A i \in DOMAIN history :
     LET h == history[i]
     IN  /\ Len(h.argv) = 3 =>
              /\ h.o.exc # "SystemExit"
              /\ HasAttr(h.args, "chunksize")
              /\ h.args["chunksize"].t = "int"
              /\ h.args["chunksize"].v = DefaultChunksize
         /\ Len(h.argv) = 4 =>
              /\ HasAttr(h.args, "chunksize")
              /\ h.args["chunksize"].t = "int"
              /\ h.args["chunksize"].v = PyInt(h.argv[4])

\* C4: a run on valid inputs ends with exit code 0, having read every chunk
\* and written the output file.
C4_ValidRunSucceeds ==
  \A i \in DOMAIN history :
     LET h == history[i]
     IN  ValidInputs(h) =>
           /\ h.exit = 0
           /\ h.o.chunksRead = NumChunks(Len(MatrixOf(h).rows), PyInt(h.argv[4]))
           /\ h.o.rowsRead = Len(MatrixOf(h).rows)
           /\ h.o.writes = 1

\* C5: the accumulated frames hold, in input order, the retained rows of the
\* rows read so far, and the final output lists the retained rows of the
\* input in their original order.
C5_OutputKeepsInputOrder ==
  \A i \in DOMAIN history :
     LET h == history[i]
     IN  ValidInputs(h) =>
           /\ [k \in DOMAIN concatRows(h.o.acc) |-> concatRows(h.o.acc)[k].data]
                = [k \in DOMAIN Retained(BoundaryOf(h).geom, SubSeq(MatrixOf(h).rows, 1, h.o.rowsRead)) |->
                     WithGeometry(Retained(BoundaryOf(h).geom, SubSeq(MatrixOf(h).rows, 1, h.o.rowsRead))[k])]
           /\ Delivered(h)
           /\ OutputOf(h).rows
                = [k \in DOMAIN Retained(BoundaryOf(h).geom, MatrixOf(h).rows) |->
                     WithGeometry(Retained(BoundaryOf(h).geom, MatrixOf(h).rows)[k])]

\* C6: on a matrix with a header and no rows the run succeeds and writes an
\* output file with a header row and no data rows.
C6_EmptyMatrixGivesHeaderOnly ==
  \A i \in DOMAIN history :
     LET h == history[i]
     IN  (ValidInputs(h) /\ MatrixOf(h).rows = <<>>) =>
           /\ h.exit = 0
           /\ Delivered(h)
           /\ OutputOf(h).header = Append(Header, "geometry")
           /\ OutputOf(h).rows = <<>>

\* C7: a run whose boundary file does not parse as a geometry fails, and it
\* has read no chunk and no row of the matrix, accumulated nothing and left
\* every file as it was.
C7_BadBoundaryFailsBeforeReading ==
  \A i \in DOMAIN history :
     LET h == history[i]
     IN  BoundaryOf(h).kind = "garbage" =>
           /\ h.exit # 0
           /\ h.o.chunksRead = 0
           /\ h.o.rowsRead = 0
           /\ h.o.acc = <<>>
           /\ h.o.writes = 0
           /\ h.o.fs = h.before

C7_Witness ==
  \E i \in DOMAIN history :
     /\ Len(history[i].argv) = 4
     /\ BoundaryOf(history[i]).kind = "garbage"
     /\ Len(MatrixOf(history[i]).rows) > 0
     /\ history[i].exit = 1
     /\ pc = "idle"

\* The chunk of a matrix read c rows at a time that holds its first row whose
\* identifier does not decode.
FirstBadChunk(rows, c) ==
  LET k == CHOOSE n \in DOMAIN rows :
             ~IsValidCell(rows[n].grid_id) /\ \A m \in 1..(n - 1) : IsValidCell(rows[m].grid_id)
  IN  (k + c - 1) \div c

\* C8: a run over a matrix with an identifier that does not decode ends in
\* failure at the chunk that holds it: the decoding error is what ends the
\* run, no later chunk is read, and nothing is written.
C8_UndecodableRowFailsAtItsChunk ==
  \A i \in DOMAIN history :
     LET h == history[i]
     IN  (/\ Len(h.argv) = 4
          /\ BoundaryOf(h).kind = "wkt"
          /\ PyInt(h.argv[4]) >= 1
          /\ ~AllDecode(MatrixOf(h).rows))
         => /\ h.exit # 0
            /\ h.o.exc = "H3CellInvalidError"
            /\ h.o.chunksRead = FirstBadChunk(MatrixOf(h).rows, PyInt(h.argv[4]))
            /\ h.o.writes = 0

\* C9: the output file of a run has the input's columns followed by one
\* geometry column and no index column, and each of its rows is an input row
\* with its values unchanged plus the polygon of its grid_id.
C9_OutputColumnsAreInputPlusGeometry ==
  \A i \in DOMAIN history :
     LET h == history[i]
     IN  ValidInputs(h) =>
           /\ Delivered(h)
           /\ OutputOf(h).header = Append(MatrixOf(h).header, "geometry")
           /\ \A k \in DOMAIN OutputOf(h).rows :
                \E n \in DOMAIN MatrixOf(h).rows :
                   OutputOf(h).rows[k] = WithGeometry(MatrixOf(h).rows[n])

\* C10: a run writes the output path at most once, and only after it has read
\* every chunk; a run that fails has written nothing, the files are as they
\* were before it.
C10_OutputWrittenOnceAtTheEnd ==
  \A i \in DOMAIN history :
     LET h == history[i]
     IN  /\ h.o.writes <= 1
         /\ h.o.writes = 1 =>
              /\ h.o.rowsRead = Len(MatrixOf(h).rows)
              /\ h.o.finished
         /\ h.exit # 0 => (h.o.writes = 0 /\ h.o.fs = h.before)

C10_Witness ==
  /\ pc = "idle"
  /\ fs[OutputPath].kind = "csv"
  /\ \E i, j \in DOMAIN history :
        /\ history[i].exit = 2 /\ history[i].o.at = 22
        /\ history[j].exit = 1 /\ history[j].o.at = 25
        /\ history[j].before[OutputPath].kind = "csv"
        /\ history[j].o.fs[OutputPath] = history[j].before[OutputPath]

====
